---- MODULE Spec2Model ----
(***************************************************************************)
(* A model of dashboard.py, the Streamlit script of the e-commerce         *)
(* analytics dashboard.  One run of the script is the sequence of its      *)
(* top-level blocks (data loading, sidebar date range, filtering, the      *)
(* aggregations behind each metric and chart); the session around it holds *)
(* the uploaded file, the default file on disk, the st.cache_data cache of *)
(* load_data and the widget values, and re-runs the script on every        *)
(* interaction.                                                            *)
(*                                                                         *)
(* Prices are in cents and even, so that a median of two prices is exact.  *)
(* A float NaN is the empty sequence <<>>, a number v is <<v>>; a null     *)
(* brand is the empty string.  Tables have at least one row and every      *)
(* event_time cell of an undamaged file parses: a header-only file or a    *)
(* NaT cell is outside the inputs modelled here.                           *)
(***************************************************************************)
EXTENDS Integers, Sequences, FiniteSets, TLC

\* Bounds of the model.
MaxDay == 3
MaxRows == 2
MaxN == 2

\* head(10) of the three brand rankings.
Top10 == 10

Days == 1..MaxDay
Hours == {0, 23}
NULL == ""
NaN == <<>>
Num(v) == <<v>>

AllCols == {"event_time", "event_type", "product_id", "brand", "price", "category_code"}

\* The columns whose absence the script survives or not, one at a time, and
\* both optional ones together.
Schemas ==
  {AllCols} \cup {AllCols \ {c} : c \in AllCols} \cup {AllCols \ {"brand", "category_code"}}

\* One CSV line: event_time is still text, here the pair <<day, hour>>.
CsvRow(d, h, t, p, b, c) ==
  [event_time |-> <<d, h>>, event_type |-> t, product_id |-> p,
   brand |-> b, price |-> c, category_code |-> "electronics"]

\* The content (bytes) of a CSV file: damage says whether pandas can read it.
Csv(dmg, cols, rows) == [damage |-> dmg, cols |-> cols, rows |-> rows]

NoBytes == Csv("absent", {}, <<>>)
NoTable == [cols |-> {}, rows |-> <<>>]
NoWidget == [id |-> <<>>, value |-> <<>>, picked |-> FALSE]
DefaultName == "2019-Oct.csv"
UploadName == "upload.csv"

SeqsUpTo(S, n) == UNION {[1..k -> S] : k \in 1..n}

Min2(a, b) == IF a <= b THEN a ELSE b

RECURSIVE SumSeq(_)
SumSeq(s) == IF s = <<>> THEN 0 ELSE Head(s) + SumSeq(Tail(s))

Range(s) == {s[i] : i \in 1..Len(s)}

Column(rows, c) == [i \in 1..Len(rows) |-> rows[i][c]]

\* pd.to_datetime on one cell.
ToDatetime(text) == [date |-> text[1], hour |-> text[2]]

\* Timestamp order, as min() and max() of the event_time column use it.
TimeLeq(a, b) == a.date < b.date \/ (a.date = b.date /\ a.hour <= b.hour)

\* pd.read_csv followed by the event_time conversion of load_data.
ParseRaises(bytes) ==
  CASE bytes.damage = "malformed" -> "ParserError"
    [] bytes.damage = "absent" -> "FileNotFoundError"
    [] "event_time" \notin bytes.cols -> "KeyError:event_time"
    [] bytes.damage = "bad_event_time" -> "DateParseError"
    [] OTHER -> "none"

ParseTable(bytes) ==
  [cols |-> bytes.cols,
   rows |-> [i \in 1..Len(bytes.rows) |->
               [bytes.rows[i] EXCEPT !.event_time = ToDatetime(@)]]]

\* The key st.cache_data derives from load_data's argument: an UploadedFile is
\* hashed by name and content, a Path by the path alone.
CacheKey(src) ==
  IF src.kind = "Path" THEN [src EXCEPT !.bytes = NoBytes] ELSE src

\* df['event_time'].min().date() and .max().date()
MinTime(rows) == CHOOSE t \in Range(Column(rows, "event_time")) :
                   \A u \in Range(Column(rows, "event_time")) : TimeLeq(t, u)
MaxTime(rows) == CHOOSE t \in Range(Column(rows, "event_time")) :
                   \A u \in Range(Column(rows, "event_time")) : TimeLeq(u, t)

\* A mask that compares the timestamp itself with the end date at midnight.
MaskOnTimestamp(row, s, e) ==
  /\ row.event_time.date >= s
  /\ TimeLeq(row.event_time, [date |-> e, hour |-> 0])

\* A mask whose upper bound is exclusive.
MaskExclusive(row, s, e) == row.event_time.date >= s /\ row.event_time.date < e

\* mask = (df['event_time'].dt.date >= start_date) & (... <= end_date)
mask(row, s, e) == row.event_time.date >= s /\ row.event_time.date <= e

\* filtered_df = df.loc[mask]
RangeFilter(table, s, e) ==
  LET Keep(row) == mask(row, s, e)
  IN [cols |-> table.cols, rows |-> SelectSeq(table.rows, Keep)]

\* ---------------------------------------------------------------------------
\* The aggregations over the Filtered view.

Perms(S) ==
  {f \in [1..Cardinality(S) -> S] : \A i, j \in 1..Cardinality(S) : f[i] = f[j] => i = j}

\* sort_values(ascending=False) / value_counts(): every descending order of the
\* keys of val; which of two equal keys comes first is left to the sort.
Descending(val) ==
  {f \in Perms(DOMAIN val) :
     \A i \in 1..(Cardinality(DOMAIN val) - 1) : val[f[i]] >= val[f[i + 1]]}

\* .head(n)
HeadOf(s, n) == SubSeq(s, 1, Min2(n, Len(s)))

\* The keys of groupby('brand') and of value_counts(): null brands are dropped.
BrandsOf(rows) == Range(Column(rows, "brand")) \ {NULL}

\* The rows of one brand, and the purchase rows.
OfBrand(rows, b) == SelectSeq(rows, LAMBDA r : r.brand = b)
Purchases(rows) == SelectSeq(rows, LAMBDA r : r.event_type = "purchase")

\* The n first of val's keys in a descending order, each with its value.
Ranking(val, n) ==
  {HeadOf([i \in 1..Len(o) |-> <<o[i], val[o[i]]>>], n) : o \in Descending(val)}

\* len(filtered_df['product_id'].unique())
TotalProducts(rows) == Cardinality(Range(Column(rows, "product_id")))

\* filtered_df['price'].max() / .min(): NaN on an empty column.
PriceMax(rows) ==
  IF rows = <<>> THEN NaN
  ELSE Num(CHOOSE p \in Range(Column(rows, "price")) :
             \A q \in Range(Column(rows, "price")) : q <= p)
PriceMin(rows) ==
  IF rows = <<>> THEN NaN
  ELSE Num(CHOOSE p \in Range(Column(rows, "price")) :
             \A q \in Range(Column(rows, "price")) : p <= q)

\* filtered_df['price'].median(): the middle of the sorted prices, the mean of
\* the two middle ones for an even count, NaN on an empty column.
PriceMedian(rows) ==
  LET sorted == SortSeq(Column(rows, "price"), LAMBDA a, b : a < b)
      n == Len(sorted)
  IN IF n = 0 THEN NaN
     ELSE IF n % 2 = 1 THEN Num(sorted[(n + 1) \div 2])
     ELSE Num((sorted[n \div 2] + sorted[n \div 2 + 1]) \div 2)

\* filtered_df['brand'].value_counts().head(10)
BrandCounts(rows, n) ==
  Ranking([b \in BrandsOf(rows) |-> Len(OfBrand(rows, b))], n)

\* A ranking that forgets the purchase factor and sums every price.
BrandSalesOfAllEvents(rows, n) ==
  Ranking([b \in BrandsOf(rows) |-> SumSeq(Column(OfBrand(rows, b), "price"))], n)

\* filtered_df.groupby('brand').agg({'price': lambda x:
\*     (x * filtered_df.loc[x.index, 'event_type'].eq('purchase')).sum()})
\*   .sort_values('price', ascending=False).head(10)
BrandSales(rows, n) ==
  LET Purchased(r) == IF r.event_type = "purchase" THEN 1 ELSE 0
      Weighted(x) == [i \in 1..Len(x) |-> x[i].price * Purchased(x[i])]
  IN Ranking([b \in BrandsOf(rows) |-> SumSeq(Weighted(OfBrand(rows, b)))], n)

\* filtered_df[filtered_df['event_type'] == 'purchase'].groupby('brand')
\*   ['product_id'].nunique().sort_values(ascending=False).head(10)
UniqueProducts(rows, n) ==
  LET bought == Purchases(rows)
  IN Ranking([b \in BrandsOf(bought) |->
                Cardinality(Range(Column(OfBrand(bought, b), "product_id")))], n)

\* filtered_df.groupby([event_time.dt.date, 'event_type']).size().unstack():
\* one count for each (date, event_type) that occurs.
EventsOverTime(rows) ==
  {[date |-> r.event_time.date, event_type |-> r.event_type,
    n |-> Len(SelectSeq(rows, LAMBDA q : q.event_time.date = r.event_time.date
                                          /\ q.event_type = r.event_type))]
     : r \in Range(rows)}

\* filtered_df['price'].describe(): count, and mean, min and max, which are NaN
\* when the count is 0 (the mean is kept as the pair <<sum, count>>).
DescribePrice(rows) ==
  [count |-> Len(rows),
   mean |-> IF rows = <<>> THEN NaN ELSE Num(<<SumSeq(Column(rows, "price")), Len(rows)>>),
   min |-> PriceMin(rows),
   max |-> PriceMax(rows)]

\* ---------------------------------------------------------------------------
\* The session and one run of the script.

VARIABLES
  disk,             \* <<>> or <<bytes>>: the file 2019-Oct.csv of the working directory
  uploaded_file,    \* <<>> or <<[name, bytes]>>: the value of st.file_uploader
  cache,            \* st.cache_data of load_data: a set of [key, value]
  widget,           \* the date_input of the page: [id, value, picked], or NoWidget
  show_raw,         \* the "Show Raw Data Sample" checkbox
  pc,               \* the block the run is about to execute, or how it ended
  error,            \* the exception that ended the run, "none" otherwise
  steps,            \* the blocks this run has executed, in order
  rendered,         \* the elements this run has put on the page, in order
  df, min_date, max_date, start_date, end_date, filtered_df,
  metrics, brand_counts, brand_sales, unique_products, events_over_time,
  price_describe,
  top_n,            \* the n of the head(n) that cut brand_sales
  call,             \* the load_data call of this run: [made, src, hit, repeat]
  history           \* the sources of the earlier load_data calls of the process

sessionVars == <<disk, uploaded_file, cache, widget, show_raw>>
frameVars == <<df, filtered_df>>
rangeVars == <<min_date, max_date, start_date, end_date>>
aggVars == <<metrics, brand_counts, brand_sales, unique_products, events_over_time,
             price_describe, top_n>>
loadVars == <<call, history>>
vars == <<sessionVars, pc, error, steps, rendered, frameVars, rangeVars, aggVars, loadVars>>

NoMetrics == [total_products |-> NaN, highest |-> NaN, lowest |-> NaN, median |-> NaN]
NoDescribe == [count |-> 0, mean |-> NaN, min |-> NaN, max |-> NaN]
NoCall == [made |-> FALSE, src |-> [kind |-> "none", name |-> "", bytes |-> NoBytes],
           hit |-> FALSE, repeat |-> FALSE]

\* What the script renders before it looks at any data: the styling, the
\* header, the "Data Input" section and the file uploader.
PageTop == <<"style", "header", "section:Data Input", "file_uploader">>

Finished == pc \in {"idle", "done", "stopped", "exception"}

\* A fresh process and session, before the page is first opened.
InitSession(files) ==
  /\ disk \in {<<>>} \cup {<<f>> : f \in files}
  /\ uploaded_file = <<>>
  /\ cache = {}
  /\ widget = NoWidget
  /\ show_raw = FALSE
  /\ pc = "idle"
  /\ error = "none"
  /\ steps = <<>>
  /\ rendered = <<>>
  /\ df = NoTable
  /\ filtered_df = NoTable
  /\ min_date = 0 /\ max_date = 0 /\ start_date = 0 /\ end_date = 0
  /\ metrics = NoMetrics
  /\ brand_counts = <<>> /\ brand_sales = <<>> /\ unique_products = <<>>
  /\ events_over_time = {}
  /\ price_describe = NoDescribe
  /\ top_n = 0
  /\ call = NoCall
  /\ history = {}

\* The script starts over from its first line: nothing of the previous run's
\* results is kept, and the page is rendered down to the file uploader.
BeginRun ==
  /\ pc' = "load"
  /\ error' = "none"
  /\ steps' = <<>>
  /\ rendered' = PageTop
  /\ df' = NoTable
  /\ filtered_df' = NoTable
  /\ min_date' = 0 /\ max_date' = 0 /\ start_date' = 0 /\ end_date' = 0
  /\ metrics' = NoMetrics
  /\ brand_counts' = <<>> /\ brand_sales' = <<>> /\ unique_products' = <<>>
  /\ events_over_time' = {}
  /\ price_describe' = NoDescribe
  /\ top_n' = 0
  /\ call' = NoCall
  /\ UNCHANGED <<cache, history>>

\* An uncaught exception ends the run; Streamlit shows it on the page.
Raise(kind) ==
  /\ pc' = "exception"
  /\ error' = kind

Step(name) == steps' = Append(steps, name)

\* The page is opened or reloaded.
Rerun ==
  /\ Finished
  /\ BeginRun
  /\ UNCHANGED <<disk, uploaded_file, widget, show_raw>>

\* The user uploads a file through st.file_uploader.
Upload(files) ==
  /\ Finished
  /\ "file_uploader" \in Range(rendered)
  /\ \E f \in files : uploaded_file' = <<[name |-> UploadName, bytes |-> f]>>
  /\ BeginRun
  /\ UNCHANGED <<disk, widget, show_raw>>

\* The user removes the uploaded file.
RemoveUpload ==
  /\ Finished
  /\ uploaded_file # <<>>
  /\ uploaded_file' = <<>>
  /\ BeginRun
  /\ UNCHANGED <<disk, widget, show_raw>>

\* The default file is replaced, created or deleted between two runs.
WriteDisk(files) ==
  /\ Finished
  /\ \E d \in {<<>>} \cup {<<f>> : f \in files} : d # disk /\ disk' = d
  /\ UNCHANGED <<uploaded_file, cache, widget, show_raw, pc, error, steps, rendered,
                 frameVars, rangeVars, aggVars, loadVars>>

\* What the date picker of the page can send: one date (the range is half
\* picked) or an ordered pair, always within the widget's min_value and
\* max_value.
Pickable(id) ==
  {<<a>> : a \in id[1]..id[2]}
    \cup {p \in (id[1]..id[2]) \X (id[1]..id[2]) : p[1] <= p[2]}

\* The user picks dates in the sidebar's date_input.
PickDates ==
  /\ Finished
  /\ "date_input" \in Range(rendered)
  /\ \E v \in Pickable(widget.id) : v # widget.value /\ widget' = [widget EXCEPT !.value = v, !.picked = TRUE]
  /\ BeginRun
  /\ UNCHANGED <<disk, uploaded_file, show_raw>>

\* The user ticks or unticks "Show Raw Data Sample".
ToggleRaw ==
  /\ Finished
  /\ "checkbox" \in Range(rendered)
  /\ show_raw' = ~show_raw
  /\ BeginRun
  /\ UNCHANGED <<disk, uploaded_file, widget>>

\* ---------------------------------------------------------------------------
\* The blocks of the script, in the order of the file.

Cached(key) == (CHOOSE e \in cache : e.key = key).value

\* df = load_data(source), under @st.cache_data: a call whose key is in the
\* cache returns the stored table and does not run the body; otherwise the body
\* parses the source and the result is stored.  An exception stores nothing.
load_data(src) ==
  LET key == CacheKey(src)
      hit == \E e \in cache : e.key = key
  IN /\ call' = [made |-> TRUE, src |-> src, hit |-> hit, repeat |-> src \in history]
     /\ history' = history \cup {src}
     /\ IF hit
          THEN /\ df' = Cached(key)
               /\ pc' = "sidebar"
               /\ UNCHANGED <<cache, error>>
          ELSE IF ParseRaises(src.bytes) = "none"
            THEN /\ df' = ParseTable(src.bytes)
                 /\ cache' = cache \cup {[key |-> key, value |-> ParseTable(src.bytes)]}
                 /\ pc' = "sidebar"
                 /\ error' = error
            ELSE /\ Raise(ParseRaises(src.bytes))
                 /\ UNCHANGED <<cache, df>>

\* An else branch that reports the error and forgets st.stop(): the script goes
\* on to the sidebar, where df is not defined.
ErrorWithoutStop ==
  /\ rendered' = rendered \o <<"error", "section:Analysis Controls", "exception">>
  /\ Raise("NameError:df")

\* st.error("Please upload a CSV file to begin analysis"); st.stop()
NoDataAvailable ==
  /\ rendered' = Append(rendered, "error")
  /\ pc' = "stopped"
  /\ error' = error

\* The "Data Loading" block: the uploaded file, else the default file if it
\* exists, else st.error and st.stop.  A run that stops here has not rendered
\* the date_input, whose value the session then drops.
DataLoading ==
  /\ pc = "load"
  /\ IF uploaded_file # <<>>
       THEN /\ load_data([kind |-> "UploadedFile", name |-> uploaded_file[1].name,
                          bytes |-> uploaded_file[1].bytes])
            /\ Step("load_data")
            /\ rendered' = IF pc' = "exception" THEN Append(rendered, "exception") ELSE rendered
            /\ UNCHANGED widget
       ELSE IF disk # <<>>
         THEN /\ load_data([kind |-> "Path", name |-> DefaultName, bytes |-> disk[1]])
              /\ Step("load_data")
              /\ rendered' = IF pc' = "exception" THEN Append(rendered, "exception") ELSE rendered
              /\ UNCHANGED widget
         ELSE /\ NoDataAvailable
              /\ widget' = NoWidget
              /\ UNCHANGED <<steps, df, cache, loadVars>>
  /\ UNCHANGED <<disk, uploaded_file, show_raw, filtered_df, rangeVars, aggVars>>

\* A date_input that keeps the value the user picked whatever the data is now.
WidgetValueKept(id) ==
  IF widget # NoWidget THEN widget.value ELSE id

\* The value st.sidebar.date_input returns: the widget is identified by its
\* arguments, so a value the user picked stands while min_date and max_date
\* are the same, and the default (min_date, max_date) is returned otherwise.
\* The widget's picked field says that its value is the user's.
WidgetValue(id) ==
  IF widget.id = id THEN widget.value ELSE id

\* The "Sidebar Filters" block; unpacking a half-picked range raises.
SidebarFilters ==
  /\ pc = "sidebar"
  /\ Step("date_input")
  /\ min_date' = MinTime(df.rows).date
  /\ max_date' = MaxTime(df.rows).date
  /\ LET value == WidgetValue(<<min_date', max_date'>>)
     IN /\ widget' = [id |-> <<min_date', max_date'>>, value |-> value,
                      picked |-> widget.picked /\ widget.id = <<min_date', max_date'>>]
        /\ IF Len(value) = 2
             THEN /\ start_date' = value[1]
                  /\ end_date' = value[2]
                  /\ pc' = "filter"
                  /\ error' = error
                  /\ rendered' = rendered \o <<"section:Analysis Controls", "date_input">>
             ELSE /\ Raise("ValueError:unpack")
                  /\ rendered' = rendered \o <<"section:Analysis Controls", "date_input", "exception">>
                  /\ UNCHANGED <<start_date, end_date>>
  /\ UNCHANGED <<disk, uploaded_file, cache, show_raw, frameVars, aggVars, loadVars>>

\* The "Data Filtering" block.
DataFiltering ==
  /\ pc = "filter"
  /\ Step("filter")
  /\ filtered_df' = RangeFilter(df, start_date, end_date)
  /\ pc' = "metrics"
  /\ UNCHANGED <<sessionVars, error, rendered, df, rangeVars, aggVars, loadVars>>

\* The "Key Performance Metrics" block: four st.metric in turn, each reading
\* its column when it is reached.
KeyMetrics ==
  /\ pc = "metrics"
  /\ Step("metrics")
  /\ IF "product_id" \notin filtered_df.cols
       THEN /\ Raise("KeyError:product_id")
            /\ rendered' = rendered \o <<"section:Key Performance Metrics", "exception">>
            /\ UNCHANGED metrics
       ELSE IF "price" \notin filtered_df.cols
         THEN /\ Raise("KeyError:price")
              /\ rendered' = rendered \o <<"section:Key Performance Metrics",
                                           "metric:Total Products", "exception">>
              /\ metrics' = [metrics EXCEPT !.total_products = Num(TotalProducts(filtered_df.rows))]
         ELSE /\ metrics' = [total_products |-> Num(TotalProducts(filtered_df.rows)),
                             highest |-> PriceMax(filtered_df.rows),
                             lowest |-> PriceMin(filtered_df.rows),
                             median |-> PriceMedian(filtered_df.rows)]
              /\ rendered' = rendered \o <<"section:Key Performance Metrics",
                                           "metric:Total Products", "metric:Highest Price",
                                           "metric:Lowest Price", "metric:Median Price">>
              /\ pc' = "price_dist"
              /\ error' = error
  /\ UNCHANGED <<sessionVars, frameVars, rangeVars, brand_counts, brand_sales,
                 unique_products, events_over_time, price_describe, top_n, loadVars>>

\* The price histogram.
PriceDistribution ==
  /\ pc = "price_dist"
  /\ Step("price_dist")
  /\ rendered' = rendered \o <<"section:Price Analysis", "chart:Product Price Distribution">>
  /\ pc' = "brand_counts"
  /\ UNCHANGED <<sessionVars, error, frameVars, rangeVars, aggVars, loadVars>>

\* brand_counts and the "Top 10 Brands" chart.
TopBrands ==
  /\ pc = "brand_counts"
  /\ Step("brand_counts")
  /\ IF "brand" \notin filtered_df.cols
       THEN /\ Raise("KeyError:brand")
            /\ rendered' = Append(rendered, "exception")
            /\ UNCHANGED brand_counts
       ELSE /\ brand_counts' \in BrandCounts(filtered_df.rows, Top10)
            /\ rendered' = Append(rendered, "chart:Top 10 Brands")
            /\ pc' = "brand_sales"
            /\ error' = error
  /\ UNCHANGED <<sessionVars, frameVars, rangeVars, metrics, brand_sales,
                 unique_products, events_over_time, price_describe, top_n, loadVars>>

\* brand_sales and the "Top 10 Brands by Sales Value" chart, with n for the 10
\* of head(10).  The lambda reads event_type once per group; with no group,
\* whether pandas calls it at all depends on the pandas version.
BrandSalesChartN(n) ==
  /\ pc = "brand_sales"
  /\ Step("brand_sales")
  /\ \E called \in BOOLEAN :
       /\ BrandsOf(filtered_df.rows) # {} => called
       /\ IF "event_type" \notin filtered_df.cols /\ called
            THEN /\ Raise("KeyError:event_type")
                 /\ rendered' = rendered \o <<"section:Brand Performance Analysis", "exception">>
                 /\ UNCHANGED <<brand_sales, top_n>>
            ELSE /\ brand_sales' \in IF "event_type" \in filtered_df.cols
                                       THEN BrandSales(filtered_df.rows, n)
                                       ELSE {<<>>}
                 /\ top_n' = n
                 /\ rendered' = rendered \o <<"section:Brand Performance Analysis",
                                              "chart:Top 10 Brands by Sales Value">>
                 /\ pc' = "unique_products"
                 /\ error' = error
  /\ UNCHANGED <<sessionVars, frameVars, rangeVars, metrics, brand_counts,
                 unique_products, events_over_time, price_describe, loadVars>>

\* A block that sorts the Filtered view in place by price before ranking.
BrandSalesChartInPlace ==
  /\ pc = "brand_sales"
  /\ Step("brand_sales")
  /\ "event_type" \in filtered_df.cols
  /\ filtered_df' = [filtered_df EXCEPT
                       !.rows = SortSeq(@, LAMBDA a, b : a.price > b.price)]
  /\ brand_sales' \in BrandSales(filtered_df.rows, Top10)
  /\ top_n' = Top10
  /\ rendered' = rendered \o <<"section:Brand Performance Analysis",
                               "chart:Top 10 Brands by Sales Value">>
  /\ pc' = "unique_products"
  /\ UNCHANGED <<sessionVars, error, df, rangeVars, metrics, brand_counts,
                 unique_products, events_over_time, price_describe, loadVars>>

BrandSalesChart == BrandSalesChartN(Top10)

\* unique_products and the "Top 10 Brands by Unique Products Sold" chart.
UniqueProductsChart ==
  /\ pc = "unique_products"
  /\ Step("unique_products")
  /\ IF "event_type" \notin filtered_df.cols
       THEN /\ Raise("KeyError:event_type")
            /\ rendered' = Append(rendered, "exception")
            /\ UNCHANGED unique_products
       ELSE /\ unique_products' \in UniqueProducts(filtered_df.rows, Top10)
            /\ rendered' = Append(rendered, "chart:Top 10 Brands by Unique Products Sold")
            /\ pc' = "events"
            /\ error' = error
  /\ UNCHANGED <<sessionVars, frameVars, rangeVars, metrics, brand_counts, brand_sales,
                 events_over_time, price_describe, top_n, loadVars>>

\* events_over_time and the "Event Types Over Time" chart.
TemporalAnalysis ==
  /\ pc = "events"
  /\ Step("events_over_time")
  /\ events_over_time' = EventsOverTime(filtered_df.rows)
  /\ rendered' = rendered \o <<"section:Temporal Analysis", "chart:Event Types Over Time">>
  /\ pc' = "category"
  /\ UNCHANGED <<sessionVars, error, frameVars, rangeVars, metrics, brand_counts, brand_sales,
                 unique_products, price_describe, top_n, loadVars>>

\* The "Category Analysis" block, guarded by the presence of category_code.
CategoryAnalysis ==
  /\ pc = "category"
  /\ Step("category")
  /\ rendered' = IF "category_code" \in filtered_df.cols
                   THEN rendered \o <<"section:Category Analysis",
                                      "chart:Price Distribution by Category">>
                   ELSE rendered
  /\ pc' = "summary"
  /\ UNCHANGED <<sessionVars, error, frameVars, rangeVars, aggVars, loadVars>>

\* The "Detailed Analysis" block: describe() of the prices, the checkbox, and
\* the first rows when it is ticked.
DataSummary ==
  /\ pc = "summary"
  /\ Step("describe")
  /\ price_describe' = DescribePrice(filtered_df.rows)
  /\ rendered' = rendered \o <<"section:Detailed Analysis", "table:Basic Statistics of Prices",
                               "checkbox">>
                          \o (IF show_raw THEN <<"table:Sample of Raw Data">> ELSE <<>>)
  /\ pc' = "done"
  /\ UNCHANGED <<sessionVars, error, frameVars, rangeVars, metrics, brand_counts, brand_sales,
                 unique_products, events_over_time, top_n, loadVars>>

Script ==
  \/ DataLoading
  \/ SidebarFilters
  \/ DataFiltering
  \/ KeyMetrics
  \/ PriceDistribution
  \/ TopBrands
  \/ BrandSalesChart
  \/ UniqueProductsChart
  \/ TemporalAnalysis
  \/ CategoryAnalysis
  \/ DataSummary

\* ---------------------------------------------------------------------------
\* The session: two monthly files, uploaded or written as the default file.

SessionFiles ==
  {Csv("none", AllCols, <<CsvRow(1, 0, "view", 1, "A", 500),
                          CsvRow(MaxDay, 23, "purchase", 2, "B", 1000)>>),
   Csv("none", AllCols, <<CsvRow(2, 23, "purchase", 1, "A", 500)>>)}

UploadSession == Upload(SessionFiles)
WriteDiskSession == WriteDisk(SessionFiles)

Init == InitSession(SessionFiles)

Next ==
  \/ Rerun
  \/ UploadSession
  \/ RemoveUpload
  \/ WriteDiskSession
  \/ PickDates
  \/ ToggleRaw
  \/ Script

Spec == Init /\ [][Next]_vars

\* ---------------------------------------------------------------------------
\* One default file of any schema and content, and the date ranges the user
\* can pick over it.  A row's event_type goes with its hour.

RunRows ==
  {CsvRow(d, h, IF h = 0 THEN "view" ELSE "purchase", d, "A", IF h = 0 THEN 500 ELSE 1000) :
     d \in Days, h \in Hours}

RunFiles ==
  {Csv("none", c, r) : c \in Schemas, r \in SeqsUpTo(RunRows, MaxRows)}
    \cup {Csv(dmg, AllCols, <<CsvRow(1, 0, "view", 1, "A", 500)>>) :
            dmg \in {"malformed", "bad_event_time"}}

InitRun == InitSession(RunFiles)

NextRun ==
  \/ Rerun
  \/ PickDates
  \/ Script

SpecRun == InitRun /\ [][NextRun]_vars

\* ---------------------------------------------------------------------------
\* The brand ranking alone, over any Filtered view and any n.

TopRows ==
  {ParseTable(Csv("none", AllCols, <<CsvRow(1, 0, t, 1, b, c)>>)).rows[1] :
     t \in {"view", "purchase"}, b \in {"A", "B", NULL}, c \in {500, 1000}}

InitTop ==
  /\ disk = <<>> /\ uploaded_file = <<>> /\ cache = {} /\ widget = NoWidget
  /\ show_raw = FALSE
  /\ pc = "brand_sales"
  /\ error = "none"
  /\ steps = <<>>
  /\ rendered = <<>>
  /\ \E rows \in {<<>>} \cup SeqsUpTo(TopRows, MaxRows) :
       /\ df = [cols |-> AllCols, rows |-> rows]
       /\ filtered_df = [cols |-> AllCols, rows |-> rows]
  /\ min_date = 0 /\ max_date = 0 /\ start_date = 0 /\ end_date = 0
  /\ metrics = NoMetrics
  /\ brand_counts = <<>> /\ brand_sales = <<>> /\ unique_products = <<>>
  /\ events_over_time = {}
  /\ price_describe = NoDescribe
  /\ top_n = 0
  /\ call = NoCall
  /\ history = {}

RankBrands == \E n \in 1..MaxN : BrandSalesChartN(n)

NextTop == RankBrands

SpecTop == InitTop /\ [][NextTop]_vars

\* ---------------------------------------------------------------------------
\* The properties.

Ran(name) == name \in Range(steps)

\* The columns the input file must have (event_time, event_type, product_id,
\* price); brand and category_code are optional.
RequiredCols == {"event_time", "event_type", "product_id", "price"}

\* The order of the blocks in the file.
BlockOrder ==
  <<"load_data", "date_input", "filter", "metrics", "price_dist", "brand_counts",
    "brand_sales", "unique_products", "events_over_time", "category", "describe">>

DateOfRow(i) == df.rows[i].event_time.date

\* The rows of the Event table that lie within the selected range.
Within == {i \in 1..Len(df.rows) : start_date <= DateOfRow(i) /\ DateOfRow(i) <= end_date}

\* C1: once the Range Filter has run, the Filtered view holds exactly the rows
\* of the Event table whose event_time date d has start_date <= d <= end_date,
\* in the table's order: none inside the range is missing, none outside is
\* included, and the view is a part of the table.
C1_FilteredViewIsExactlyTheRange ==
  Ran("filter") =>
    /\ filtered_df.cols = df.cols
    /\ Len(filtered_df.rows) = Cardinality(Within)
    /\ \A i \in Within :
         filtered_df.rows[Cardinality({j \in Within : j <= i})] = df.rows[i]

\* A run that filtered with an end date on which an evening row lies, and that
\* kept some rows and dropped others.
C1_Witness ==
  /\ Ran("filter")
  /\ Within # {} /\ Within # 1..Len(df.rows)
  /\ \E i \in Within : DateOfRow(i) = end_date /\ df.rows[i].event_time.hour > 0

\* C2: in every run that reaches the Range Filter the range is a pair with
\* min_date <= start_date <= end_date <= max_date, min_date and max_date being
\* the dates of the smallest and largest event_time of the table of that run.
C2_RangeWithinData ==
  Ran("filter") =>
    /\ Len(widget.value) = 2
    /\ widget.value = <<start_date, end_date>>
    /\ \A i \in 1..Len(df.rows) : min_date <= DateOfRow(i) /\ DateOfRow(i) <= max_date
    /\ \E i \in 1..Len(df.rows) : DateOfRow(i) = min_date
    /\ \E i \in 1..Len(df.rows) : DateOfRow(i) = max_date
    /\ min_date <= start_date /\ start_date <= end_date /\ end_date <= max_date

\* A run over an uploaded file that filters with a range the user narrowed,
\* in a session that has loaded another file before.
C2_Witness ==
  /\ Ran("filter")
  /\ widget.picked
  /\ min_date < start_date
  /\ Cardinality(history) > 1

\* C3 as stated: a run that finds neither an upload nor the default file
\* renders nothing besides the error report and runs no later step.
C3_NothingButTheErrorIsRendered ==
  pc = "stopped" => rendered = <<"error">> /\ steps = <<>> /\ ~call.made

\* C3, amended: a run that finds neither an upload nor the default file has
\* rendered the page top (styling, header, "Data Input" section, file uploader)
\* and then the error report, and nothing else; it has run no load, date range,
\* filter, aggregation or chart step; and a run gets past the loading block
\* only with a source that load_data was called on.
C3_StopsAfterTheErrorReport ==
  /\ pc = "stopped" =>
       /\ rendered = PageTop \o <<"error">>
       /\ steps = <<>>
       /\ ~call.made
       /\ error = "none"
       /\ df = NoTable /\ filtered_df = NoTable
       /\ start_date = 0 /\ end_date = 0
       /\ metrics = NoMetrics /\ price_describe = NoDescribe
       /\ brand_counts = <<>> /\ brand_sales = <<>> /\ unique_products = <<>>
       /\ events_over_time = {}
  /\ pc \notin {"idle", "load", "stopped"} =>
       call.made /\ call.src.bytes # NoBytes /\ Ran("load_data")

\* A run that stopped for want of a file, in a process that has loaded one
\* before.
C3_Witness == pc = "stopped" /\ history # {} /\ uploaded_file = <<>> /\ disk = <<>>

\* C4: the blocks of a run execute in the order of the file, and a run whose
\* input is malformed or lacks a required column fails in load_data, before
\* the Range Filter or any aggregation.
C4_BadInputFailsAtLoad ==
  /\ steps = SubSeq(BlockOrder, 1, Len(steps))
  /\ (/\ call.made
      /\ \/ call.src.bytes.damage # "none"
         \/ ~(RequiredCols \subseteq call.src.bytes.cols))
       => pc = "exception" /\ steps = <<"load_data">>

\* C5: a load_data call on a source (kind, name and bytes) that an earlier call
\* of the process was made on is served from the cache, and the table it
\* returns is the one a parse of the source's bytes gives.
C5_MemoizedEqualsFreshParse ==
  (call.made /\ call.repeat /\ pc = "sidebar") =>
     call.hit /\ df = ParseTable(call.src.bytes)

RECURSIVE SumOver(_, _)
SumOver(rows, I) ==
  IF I = {} THEN 0
  ELSE LET i == CHOOSE k \in I : TRUE IN rows[i].price + SumOver(rows, I \ {i})

\* The purchase value of brand b in the Filtered view.
PurchaseValue(b) ==
  SumOver(filtered_df.rows,
          {i \in 1..Len(filtered_df.rows) :
             filtered_df.rows[i].brand = b /\ filtered_df.rows[i].event_type = "purchase"})

\* brand_sales ranks the brands of `groups` by purchase value: min(n, number
\* of groups) distinct brands, each with its purchase value, in descending
\* order, no unlisted brand worth more than a listed one.
RanksByPurchaseValue(groups) ==
  /\ Len(brand_sales) = Min2(top_n, Cardinality(groups))
  /\ \A i \in 1..Len(brand_sales) :
       /\ brand_sales[i][1] \in groups
       /\ brand_sales[i][2] = PurchaseValue(brand_sales[i][1])
  /\ \A i, j \in 1..Len(brand_sales) : i < j =>
       /\ brand_sales[i][1] # brand_sales[j][1]
       /\ brand_sales[i][2] >= brand_sales[j][2]
  /\ \A b \in groups \ {brand_sales[i][1] : i \in 1..Len(brand_sales)} :
       \A i \in 1..Len(brand_sales) : PurchaseValue(b) <= brand_sales[i][2]

\* C6 as stated: the brands ranked are the groups of the purchase rows.
C6_RanksTheBrandsOfPurchaseRows ==
  pc = "unique_products" =>
    RanksByPurchaseValue({filtered_df.rows[i].brand : i \in
        {k \in 1..Len(filtered_df.rows) : filtered_df.rows[k].event_type = "purchase"}}
      \ {NULL})

\* C6, amended: the brands ranked are the groups of all the rows of the
\* Filtered view that have a brand; each is listed with the sum of price over
\* its purchase rows only, 0 for a brand with none; the n with the largest
\* sums are returned in descending order.
C6_RanksEveryBrandByPurchaseValue ==
  pc = "unique_products" =>
    RanksByPurchaseValue({filtered_df.rows[i].brand : i \in 1..Len(filtered_df.rows)} \ {NULL})

\* A ranking cut by head(n), over a view with a purchase and another event.
C6_Witness ==
  /\ pc = "unique_products"
  /\ Len(brand_sales) = top_n
  /\ \E i, j \in 1..Len(filtered_df.rows) :
       /\ filtered_df.rows[i].brand \notin {NULL, filtered_df.rows[j].brand}
       /\ filtered_df.rows[j].brand # NULL
       /\ filtered_df.rows[i].event_type = "purchase"
       /\ filtered_df.rows[j].event_type = "view"
       /\ top_n = 1

\* C7: over a table that has the required columns, with or without brand and
\* category_code, a run that reaches the Range Filter raises nothing.
C7_OptionalColumnsMayBeAbsent ==
  (Ran("filter") /\ RequiredCols \subseteq df.cols) => pc # "exception"

\* C8: when the range matches no row of a table that has the required columns,
\* the Range Filter returns an empty view and no aggregation over it raises;
\* the ones that ran gave their empty or NaN result, and the run completes.
C8_EmptyViewCompletes ==
  (Ran("filter") /\ filtered_df.rows = <<>> /\ RequiredCols \subseteq df.cols) =>
    /\ pc # "exception"
    /\ Ran("metrics") => metrics = [total_products |-> Num(0), highest |-> NaN,
                                    lowest |-> NaN, median |-> NaN]
    /\ brand_counts = <<>> /\ brand_sales = <<>> /\ unique_products = <<>>
    /\ events_over_time = {}
    /\ pc = "done" => price_describe = NoDescribe

\* C9: a range that covers [min_date, max_date] keeps every row of the table,
\* and the range of a run in which the user has picked none is that full
\* range.
C9_FullRangeKeepsEveryRow ==
  Ran("filter") =>
    /\ (start_date <= min_date /\ max_date <= end_date) => filtered_df = df
    /\ ~widget.picked => (start_date = min_date /\ end_date = max_date /\ filtered_df = df)

\* A run on the default range over a table with rows on its last day.
C9_Witness ==
  /\ Ran("filter")
  /\ ~widget.picked
  /\ min_date < max_date
  /\ Len(filtered_df.rows) = MaxRows

AggregationBlocks ==
  {"metrics", "price_dist", "brand_counts", "brand_sales", "unique_products", "events",
   "category", "summary"}

\* C10: no aggregation block changes the Filtered view or the Event table.
C10_AggregationsReadOnly ==
  [][(pc \in AggregationBlocks) => (df' = df /\ filtered_df' = filtered_df)]_vars

\* A run that completed every aggregation over a view of rows of different
\* prices, the dearer one last.
C10_Witness ==
  /\ pc = "done"
  /\ Len(filtered_df.rows) > 1
  /\ filtered_df.rows[1].price < filtered_df.rows[Len(filtered_df.rows)].price

====
